---- MODULE Spec2Model ----
(***************************************************************************)
(* Model of analysis/steps/step6_model_suggestion.py: the two model        *)
(* suggestion strategies (PairPlotsStrategy, HeatmapStrategy) and the      *)
(* context ModelSuggester that holds one of them and delegates to it.      *)
(*                                                                         *)
(* An optional Python value is a sequence of length at most one: None is   *)
(* <<>> and a value v is <<v>>.  The same encoding is used for a missing   *)
(* (NaN) cell of a float column and for a NaN entry of the correlation     *)
(* matrix.  A defined correlation entry is kept exact, as the pair         *)
(* <<num, den2>> that stands for  num / sqrt(den2).                        *)
(***************************************************************************)
EXTENDS Integers, Sequences, FiniteSets

\* ------------------------------------------------------------------ bounds
MaxRows == 2

\* ------------------------------------------------------- Python primitives
None == <<>>
Some(v) == <<v>>
NaN == <<>>

\* bool(target) for target: Optional[str]: None and "" are falsy.
Truthy(t) == t # None /\ t[1] # ""

RECURSIVE SumSeq(_)
SumSeq(s) == IF s = <<>> THEN 0 ELSE Head(s) + SumSeq(Tail(s))

\* ------------------------------------------------------------- the dataset
\* Column universe, in the column order of the table, and the dtype of each.
ColOrder == <<"age", "thefts", "">>
DtypeOf == [c \in {"age", "thefts", ""} |->
              IF c = "age" THEN "float64"
              ELSE IF c = "thefts" THEN "int64" ELSE "object"]

\* The values a cell of a column of the given numeric dtype can hold: two
\* distinct numbers, so that a column can be constant or vary, and, in a float
\* column only, a missing value.
CellsOf(dtype) ==
    IF dtype = "float64" THEN {NaN, Some(0), Some(1)}
    ELSE {Some(0), Some(1)}

Range(s) == {s[i] : i \in 1..Len(s)}
ColumnsOf(present) == LET Keep(c) == c \in present IN SelectSeq(ColOrder, Keep)

\* pd.DataFrame: ordered column names, a dtype and a column of cells per name.
\* The object column holds place names.
DataFrame(present, n, age, thefts) ==
    [columns |-> ColumnsOf(present),
     nrows   |-> n,
     dtypes  |-> [c \in present |-> DtypeOf[c]],
     data    |-> [c \in present |->
                    IF c = "age" THEN age
                    ELSE IF c = "thefts" THEN thefts
                    ELSE [i \in 1..n |-> "Kampala"]]]

\* `name in df.columns`
HasColumn(frame, name) == name \in Range(frame.columns)

\* ------------------------------------------------- pandas, as the code uses it
\* A numeric test that knows the float dtype only.
IsNumber_FloatOnly(dtype) == dtype = "float64"

\* The dtypes select_dtypes counts as 'number'.
IsNumber(dtype) == dtype \in {"int64", "float64"}

\* df.select_dtypes(include=['number']): a new table with the numeric columns
\* only, in their original order.
select_dtypes_number(frame) ==
    LET Keep(c) == IsNumber(frame.dtypes[c])
        kept == SelectSeq(frame.columns, Keep)
    IN  [columns |-> kept,
         nrows   |-> frame.nrows,
         dtypes  |-> [c \in Range(kept) |-> frame.dtypes[c]],
         data    |-> [c \in Range(kept) |-> frame.data[c]]]

\* Pearson correlation of two columns over the rows where neither is missing
\* (pairwise deletion).  With n such rows, num = n*Sxy - Sx*Sy and
\* den2 = (n*Sxx - Sx^2) * (n*Syy - Sy^2); the coefficient is num/sqrt(den2),
\* and NaN when den2 = 0 (fewer than two rows, or a column constant on them).
Pearson(x, y) ==
    LET Both(i) == x[i] # NaN /\ y[i] # NaN
        rows == SelectSeq([i \in 1..Len(x) |-> i], Both)
        n    == Len(rows)
        Sx   == SumSeq([k \in 1..n |-> x[rows[k]][1]])
        Sy   == SumSeq([k \in 1..n |-> y[rows[k]][1]])
        Sxy  == SumSeq([k \in 1..n |-> x[rows[k]][1] * y[rows[k]][1]])
        Sxx  == SumSeq([k \in 1..n |-> x[rows[k]][1] * x[rows[k]][1]])
        Syy  == SumSeq([k \in 1..n |-> y[rows[k]][1] * y[rows[k]][1]])
        num  == n * Sxy - Sx * Sy
        den2 == (n * Sxx - Sx * Sx) * (n * Syy - Sy * Sy)
    IN  IF den2 = 0 THEN NaN ELSE <<num, den2>>

\* corr that fills the upper triangle only and leaves the rest missing.
corr_UpperOnly(frame) ==
    LET cols == frame.columns
        m    == Len(cols)
    IN  [columns |-> cols,
         index   |-> cols,
         values  |-> [i \in 1..m, j \in 1..m |->
                        IF i <= j THEN Pearson(frame.data[cols[i]], frame.data[cols[j]])
                        ELSE NaN]]

\* numerical_df.corr(): a square table over the columns of its input; each
\* coefficient is computed once, for the pair in column order, and stored in
\* both places.
corr(frame) ==
    LET cols == frame.columns
        m    == Len(cols)
        upper == [p \in {q \in (1..m) \X (1..m) : q[1] <= q[2]} |->
                    Pearson(frame.data[cols[p[1]]], frame.data[cols[p[2]]])]
    IN  [columns |-> cols,
         index   |-> cols,
         values  |-> [i \in 1..m, j \in 1..m |->
                        IF i <= j THEN upper[<<i, j>>] ELSE upper[<<j, i>>]]]

\* --------------------------------------------------------------- strategies
\* One observable effect of a call: a plotting-library call or a printed line.
Ev(op, data, hue, text) == [op |-> op, data |-> data, hue |-> hue, text |-> text]
Call(op) == Ev(op, None, None, "")
Stdout(text) == Ev("print", None, None, text)

\* PairPlotsChart with the test `if target:` (the membership test left out).
PairPlotsChart_NoMembership(frame, target) ==
    IF Truthy(target)
      THEN Ev("sns.pairplot", Some(frame), target, "")
      ELSE Ev("sns.pairplot", Some(frame), None, "")

\* PairPlotsChart with the test `if target in df.columns:` (the truthiness test
\* left out).
PairPlotsChart_NoTruthiness(frame, target) ==
    IF target # None /\ HasColumn(frame, target[1])
      THEN Ev("sns.pairplot", Some(frame), target, "")
      ELSE Ev("sns.pairplot", Some(frame), None, "")

\* PairPlotsStrategy.suggest_model, the if/else around sns.pairplot: the grid is
\* coloured by the target when `target and target in df.columns`.  The table
\* handed to the plotting library is the caller's own.
PairPlotsChart(frame, target) ==
    IF Truthy(target) /\ HasColumn(frame, target[1])
      THEN Ev("sns.pairplot", Some(frame), target, "")
      ELSE Ev("sns.pairplot", Some(frame), None, "")

\* The lines PairPlotsStrategy.suggest_model prints.
PairPlotsAdvice ==
    << Stdout("Model Suggestions based on PairPlots:"),
       Stdout("- If clear separation in target classes visible: Consider classification models"),
       Stdout("- If linear relationships visible: Consider linear models"),
       Stdout("- If complex non-linear patterns: Consider tree-based or neural network models") >>

\* The body with the advice printed before the chart is shown.
PairPlotsBody_AdviceBeforeShow(frame, target) ==
    << Call("plt.figure"),
       PairPlotsChart(frame, target),
       Ev("plt.suptitle", None, None, "Pairwise Relationships - Model Suggestion") >>
    \o PairPlotsAdvice \o << Call("plt.show") >>

\* The body of PairPlotsStrategy.suggest_model, as the calls it makes in order.
PairPlotsBody(frame, target) ==
    << Call("plt.figure"),
       PairPlotsChart(frame, target),
       Ev("plt.suptitle", None, None, "Pairwise Relationships - Model Suggestion"),
       Call("plt.show") >> \o PairPlotsAdvice

\* HeatmapChart that leaves the target column out of the correlation.
HeatmapChart_DropTarget(frame, target) ==
    LET numerical_df == select_dtypes_number(frame)
        Keep(c) == target = None \/ c # target[1]
        kept == SelectSeq(numerical_df.columns, Keep)
        features == [columns |-> kept,
                     nrows   |-> numerical_df.nrows,
                     dtypes  |-> [c \in Range(kept) |-> numerical_df.dtypes[c]],
                     data    |-> [c \in Range(kept) |-> numerical_df.data[c]]]
    IN  Ev("sns.heatmap", Some(corr(features)), None, "")

\* HeatmapStrategy.suggest_model, from select_dtypes to sns.heatmap: the table
\* of numeric columns is a new one, its correlation matrix is what is drawn.
\* The target is not read.
HeatmapChart(frame, target) ==
    LET numerical_df == select_dtypes_number(frame)
    IN  Ev("sns.heatmap", Some(corr(numerical_df)), None, "")

\* The lines HeatmapStrategy.suggest_model prints.
HeatmapAdvice ==
    << Stdout("\nModel Suggestions based on Heatmap:"),
       Stdout("- High correlation with target: Good for linear models"),
       Stdout("- High multicollinearity: Consider regularization or feature selection"),
       Stdout("- Low feature correlations: May need complex models to capture patterns") >>

\* The body of HeatmapStrategy.suggest_model, as the calls it makes in order.
HeatmapBody(frame, target) ==
    << Call("plt.figure"),
       HeatmapChart(frame, target),
       Ev("plt.title", None, None, "Feature Correlation Heatmap - Model Suggestion"),
       Call("plt.xticks"),
       Call("plt.yticks"),
       Call("plt.tight_layout"),
       Call("plt.show") >> \o HeatmapAdvice

\* The table the caller holds after a strategy has run on it: neither strategy
\* assigns to, or calls a mutating method of, its df argument.
PairPlotsFrameAfter(frame) == frame

\* A heatmap strategy that filters the caller's table in place.
HeatmapFrameAfter_InPlace(frame) == select_dtypes_number(frame)

HeatmapFrameAfter(frame) == frame

\* strategy.suggest_model(df, target), dispatched on the class of the object:
\* the statements the call runs.
suggest_model(strategy, frame, target) ==
    IF strategy.cls = "PairPlotsStrategy" THEN PairPlotsBody(frame, target)
    ELSE HeatmapBody(frame, target)

\* The plotting-library calls of a body are the places where the environment
\* can make the call fail; 0 stands for "no call fails".
FaultPoints(body) == {0} \cup {k \in 1..Len(body) : body[k].op # "print"}

\* Python's exception propagation through a body with no try/except: the
\* statements before the failing call have run, the failing call and everything
\* after it have no effect, and the exception leaves the function.
\* Each call wrapped in try/except: the failing call is skipped and the rest runs.
Effects_Swallow(body, failAt) ==
    IF failAt = 0 THEN body
    ELSE SubSeq(body, 1, failAt - 1) \o SubSeq(body, failAt + 1, Len(body))

Effects(body, failAt) == IF failAt = 0 THEN body ELSE SubSeq(body, 1, failAt - 1)
Raised(body, failAt) == IF failAt = 0 THEN None ELSE Some(body[failAt].op)

\* The caller's table after the call.  The statements that read the table come
\* after the first one, plt.figure.
FrameAfter(strategy, frame, failAt) ==
    IF failAt = 1 THEN frame
    ELSE IF strategy.cls = "PairPlotsStrategy" THEN PairPlotsFrameAfter(frame)
    ELSE HeatmapFrameAfter(frame)

\* ------------------------------------------------------------ the context
\* The strategy objects the caller has created: two PairPlotsStrategy() objects
\* and one HeatmapStrategy() object, told apart by their identity.
Strategies == { [cls |-> "PairPlotsStrategy", id |-> "p"],
                [cls |-> "HeatmapStrategy",   id |-> "h"],
                [cls |-> "PairPlotsStrategy", id |-> "q"] }

\* What a caller can pass as target: None, the name of the float column, the
\* name of the object column, or 'target', which no table has.  A column named
\* in Targets is also missing from the tables that leave it out.
Targets == {None, Some("age"), Some(""), Some("target")}

\* The positional arguments after df: none (the default applies) or a target.
TargetArgs == {<<>>} \cup {<<t>> : t \in Targets}

VARIABLES
    df,            \* the caller's table
    ctx,           \* the ModelSuggester object: its attributes
    request,       \* the operation the caller invoked last, with its arguments
    lastSet,       \* the strategy most recently passed to __init__ / set_strategy
    swapped,       \* set_strategy has replaced the held strategy by another object
    invocations,   \* the suggest_model calls made by the last operation
    events,        \* the plotting calls and printed lines of the last operation
    raised         \* the exception the last operation left to the caller, or None

vars == <<df, ctx, request, lastSet, swapped, invocations, events, raised>>

\* ModelSuggester.__init__(strategy)
init_ctx(strategy) == [_strategy |-> strategy]

\* ModelSuggester(strategy), with a table the caller has loaded.
Init ==
    /\ \E present \in SUBSET Range(ColOrder), n \in 0..MaxRows :
         \E age \in [1..n -> CellsOf("float64")], thefts \in [1..n -> CellsOf("int64")] :
            df = DataFrame(present, n, age, thefts)
    /\ \E strategy \in Strategies :
         /\ ctx = init_ctx(strategy)
         /\ request = [op |-> "__init__", args |-> <<strategy>>]
         /\ lastSet = strategy
    /\ swapped = FALSE
    /\ invocations = <<>>
    /\ events = <<>>
    /\ raised = None

\* set_strategy that forgets the assignment.
set_strategy_ctx_NoAssign(c, strategy) == c

\* ModelSuggester.set_strategy(strategy)
set_strategy_ctx(c, strategy) == [c EXCEPT !._strategy = strategy]

set_strategy(strategy) ==
    /\ ctx' = set_strategy_ctx(ctx, strategy)
    /\ request' = [op |-> "set_strategy", args |-> <<strategy>>]
    /\ lastSet' = strategy
    /\ swapped' = (swapped \/ strategy # lastSet)
    /\ invocations' = <<>>
    /\ events' = <<>>
    /\ raised' = None
    /\ UNCHANGED df

\* The strategy execute_suggestion delegates to, and the attributes of the
\* context after the call.
Delegate(c) == c._strategy

\* execute_suggestion that also appends to a log kept on the context.
execute_suggestion_ctx_Logging(c) == [_strategy |-> c._strategy, _history |-> TRUE]

execute_suggestion_ctx(c) == c

\* ModelSuggester.execute_suggestion(df, *args): args is empty when the caller
\* leaves the target out, and the default None applies.
DefaultTarget == None

execute_suggestion(args) ==
    LET target   == IF args = <<>> THEN DefaultTarget ELSE args[1]
        strategy == Delegate(ctx)
        body     == suggest_model(strategy, df, target)
    IN  \E failAt \in FaultPoints(body) :
          /\ invocations' = << [strategy |-> strategy, df |-> df, target |-> target] >>
          /\ events' = Effects(body, failAt)
          /\ raised' = Raised(body, failAt)
          /\ df' = FrameAfter(strategy, df, failAt)
          /\ ctx' = execute_suggestion_ctx(ctx)
          /\ request' = [op |-> "execute_suggestion", args |-> args]
          /\ UNCHANGED <<lastSet, swapped>>

Next ==
    \/ \E strategy \in Strategies : set_strategy(strategy)
    \/ \E args \in TargetArgs : execute_suggestion(args)

Spec == Init /\ [][Next]_vars

\* ================================================================= claims
\* The last operation was execute_suggestion; the call it made; the statement
\* at which the environment made it fail (0: none).
Executed == request.op = "execute_suggestion"
TheCall == invocations[1]
FailedAt == IF raised = None THEN 0 ELSE Len(events) + 1
Ran(cls) == Executed /\ Len(invocations) = 1 /\ TheCall.strategy.cls = cls

\* C1: every suggest_model call made by execute_suggestion is made on the
\* strategy most recently passed to set_strategy (or to the constructor when
\* set_strategy was never called), never on one held earlier.
C1_DelegatesToLatestStrategy ==
    \A k \in 1..Len(invocations) : invocations[k].strategy = lastSet

\* C1 witness: the held strategy has been replaced by another object and an
\* execute_suggestion after that has made its call.
C1_Witness ==
    /\ swapped
    /\ Executed
    /\ Len(invocations) = 1
    /\ TheCall.strategy = lastSet

\* C2: an execute_suggestion step makes exactly one suggest_model call, on the
\* held strategy, with the df and the target it received (None when the target
\* is left out), and leaves the held strategy unchanged; a set_strategy step
\* makes no call and has no effect on the plotting library or the console; the
\* context has no attribute other than _strategy.
C2_Step ==
    /\ request'.op = "execute_suggestion" =>
          /\ Len(invocations') = 1
          /\ invocations'[1].strategy = ctx._strategy
          /\ invocations'[1].df = df
          /\ invocations'[1].target =
                IF request'.args = <<>> THEN None ELSE request'.args[1]
          /\ ctx' = ctx
    /\ request'.op = "set_strategy" =>
          /\ invocations' = <<>>
          /\ events' = <<>>
          /\ ctx'._strategy = request'.args[1]
    /\ DOMAIN ctx' = {"_strategy"}

C2_ExactlyOneDelegation == [][C2_Step]_vars

\* C2 witness: execute_suggestion(df) with the target left out has made its one
\* call, with target None, on the held strategy.
C2_Witness ==
    /\ Executed
    /\ request.args = <<>>
    /\ Len(invocations) = 1
    /\ TheCall.target = None
    /\ TheCall.strategy = ctx._strategy

\* C3: with either strategy, a call whose target names no column of the table
\* has the plotting calls and the printed lines of the same call with target
\* None; PairPlotsStrategy draws the grid without a hue in both.
C3_AbsentTargetIsNoTarget ==
    (Executed /\ TheCall.target # None /\ ~HasColumn(TheCall.df, TheCall.target[1])) =>
        /\ events = Effects(suggest_model(TheCall.strategy, TheCall.df, None), FailedAt)
        /\ \A k \in 1..Len(events) : events[k].hue = None

\* C3 witness: PairPlotsStrategy has run to the end with the target 'target' on
\* a table that has columns, none of them named 'target'.
C3_Witness ==
    /\ Ran("PairPlotsStrategy")
    /\ raised = None
    /\ TheCall.target = Some("target")
    /\ TheCall.df.columns # <<>>
    /\ ~HasColumn(TheCall.df, "target")

\* C4 as stated: the pairplot call has hue=target whenever a target is supplied
\* and names a column of the table, the empty string included, and has no hue
\* otherwise.
C4_HueForEveryColumnName ==
    (Ran("PairPlotsStrategy") /\ Len(events) >= 2) =>
        events[2].hue = IF TheCall.target # None /\ HasColumn(TheCall.df, TheCall.target[1])
                          THEN TheCall.target ELSE None

\* C4 amended: the pairplot call has hue=target whenever a non-empty target is
\* supplied and names a column of the table; it has no hue otherwise, that is
\* for None, for a name that is no column, and for the empty string even when a
\* column is named ''.
C4_HueForNonEmptyColumnName ==
    (Ran("PairPlotsStrategy") /\ Len(events) >= 2) =>
        /\ events[2].op = "sns.pairplot"
        /\ events[2].data = Some(TheCall.df)
        /\ events[2].hue =
              IF /\ TheCall.target # None
                 /\ TheCall.target[1] # ""
                 /\ TheCall.target[1] \in Range(TheCall.df.columns)
                THEN TheCall.target ELSE None

\* C4 witness: the table has a column named '' and the call with target '' has
\* drawn its grid, without a hue.
C4_Witness ==
    /\ Ran("PairPlotsStrategy")
    /\ Len(events) >= 2
    /\ TheCall.target = Some("")
    /\ HasColumn(TheCall.df, "")
    /\ events[2].hue = None

\* C4 witness of the coloured branch: the target 'age' names a column.
C4_WitnessHue ==
    /\ Ran("PairPlotsStrategy")
    /\ Len(events) >= 2
    /\ TheCall.target = Some("age")
    /\ events[2].hue = Some("age")

\* The numeric columns of a table, in order, and the matrix handed to
\* sns.heatmap by the last call.
NumericColumns(frame) ==
    LET Numeric(c) == frame.dtypes[c] = "int64" \/ frame.dtypes[c] = "float64"
    IN  SelectSeq(frame.columns, Numeric)
DrewHeatmap == Ran("HeatmapStrategy") /\ Len(events) >= 2
Matrix == events[2].data[1]

\* A correlation entry e is NaN, or stands for e[1] / sqrt(e[2]) with e[2] > 0.
InUnitInterval(e) == e # NaN /\ e[2] > 0 /\ e[1] * e[1] <= e[2]
IsOne(e) == e # NaN /\ e[1] > 0 /\ e[1] * e[1] = e[2]
Square(M) ==
    /\ M.index = M.columns
    /\ DOMAIN M.values = (1..Len(M.columns)) \X (1..Len(M.columns))
Symmetric(M) ==
    \A i, j \in 1..Len(M.columns) : M.values[i, j] = M.values[j, i]
\* The column holds at least two non-missing values that are not all equal.
Varies(col) ==
    \E i, j \in DOMAIN col : col[i] # NaN /\ col[j] # NaN /\ col[i] # col[j]

\* C5 as stated: for a table with at least two numeric columns the matrix is
\* square and symmetric, every diagonal entry is 1.0 and every entry lies in
\* [-1, 1], constant columns and single rows included.
C5_UnitDiagonalAlways ==
    (DrewHeatmap /\ Len(NumericColumns(TheCall.df)) >= 2) =>
        /\ Square(Matrix)
        /\ Symmetric(Matrix)
        /\ \A i \in 1..Len(Matrix.columns) : IsOne(Matrix.values[i, i])
        /\ \A i, j \in 1..Len(Matrix.columns) : InUnitInterval(Matrix.values[i, j])

\* C5 amended: for a table with at least two numeric columns the matrix is
\* square and symmetric, every entry is NaN or lies in [-1, 1], and a diagonal
\* entry is 1.0 when its column holds at least two non-missing values that are
\* not all equal and NaN otherwise.
C5_UnitDiagonalWhereDefined ==
    (DrewHeatmap /\ Len(NumericColumns(TheCall.df)) >= 2) =>
        /\ Square(Matrix)
        /\ Symmetric(Matrix)
        /\ \A i \in 1..Len(Matrix.columns) :
              IF Varies(TheCall.df.data[Matrix.columns[i]])
                THEN IsOne(Matrix.values[i, i])
                ELSE Matrix.values[i, i] = NaN
        /\ \A i, j \in 1..Len(Matrix.columns) :
              Matrix.values[i, j] = NaN \/ InUnitInterval(Matrix.values[i, j])

\* C5 witness: a heatmap of two numeric columns, the first varying (diagonal
\* 1.0), the second constant over more than one row (diagonal NaN).
C5_Witness ==
    /\ DrewHeatmap
    /\ Len(Matrix.columns) = 2
    /\ TheCall.df.nrows >= 2
    /\ IsOne(Matrix.values[1, 1])
    /\ Matrix.values[2, 2] = NaN
    /\ ~Varies(TheCall.df.data[Matrix.columns[2]])

C7_MatrixOverNumericColumns ==
    Ran("HeatmapStrategy") =>
        /\ Len(events) >= 2 =>
              /\ events[2].op = "sns.heatmap"
              /\ Matrix.columns = NumericColumns(TheCall.df)
              /\ Square(Matrix)
              /\ (NumericColumns(TheCall.df) = <<>> => DOMAIN Matrix.values = {})
        /\ FailedAt \notin {1, 2} => Len(events) >= 2
        /\ raised # None =>
              raised[1] \in {"plt.figure", "sns.heatmap", "plt.title", "plt.xticks",
                             "plt.yticks", "plt.tight_layout", "plt.show"}

\* C7 witness: the table has rows and a column, none numeric, and the heatmap
\* call has been reached with a 0-by-0 matrix.
C7_Witness ==
    /\ DrewHeatmap
    /\ TheCall.df.columns = <<"">>
    /\ TheCall.df.nrows >= 1
    /\ Matrix.columns = <<>>
    /\ DOMAIN Matrix.values = {}

\* C8: no operation changes the caller's table: its columns, their names and
\* their cells are the same after every set_strategy and execute_suggestion.
C8_DatasetReadOnly == [][df' = df]_vars

\* C8 witness: after a swap, the heatmap has run to the end on a table with a
\* numeric and a non-numeric column, and the table is the one passed in.
C8_Witness ==
    /\ swapped
    /\ Ran("HeatmapStrategy")
    /\ raised = None
    /\ HasColumn(df, "")
    /\ HasColumn(df, "thefts")
    /\ df = TheCall.df

\* C9: when a library call fails inside the strategy, execute_suggestion leaves
\* that failure to the caller: the statements before it ran once, nothing ran
\* after it, no advisory line was printed, and the context and the table are
\* what they were before the call.
C9_Failed ==
    (Executed /\ raised # None) =>
        LET body == suggest_model(TheCall.strategy, TheCall.df, TheCall.target)
            k    == Len(events) + 1
        IN  /\ k <= Len(body)
            /\ events = SubSeq(body, 1, k - 1)
            /\ raised = Some(body[k].op)
            /\ body[k].op # "print"
            /\ \A i \in 1..Len(events) : events[i].op # "print"

C9_Step ==
    (request'.op = "execute_suggestion" /\ raised' # None) =>
        /\ invocations'[1].strategy = ctx._strategy
        /\ invocations'[1].df = df
        /\ ctx' = ctx
        /\ df' = df
        /\ lastSet' = lastSet

C9_FailurePropagates == []C9_Failed /\ [][C9_Step]_vars

\* C9 witness: sns.heatmap has failed; only plt.figure ran before it.
C9_Witness ==
    /\ Ran("HeatmapStrategy")
    /\ raised = Some("sns.heatmap")
    /\ Len(events) = 1
    /\ events[1].op = "plt.figure"
    /\ ctx._strategy = TheCall.strategy

\* The printed lines of the last operation, and the lines of each strategy.
PrintedText == LET IsLine(e) == e.op = "print"
                   lines == SelectSeq(events, IsLine)
               IN  [k \in 1..Len(lines) |-> lines[k].text]
FixedText(cls) ==
    IF cls = "PairPlotsStrategy"
      THEN << "Model Suggestions based on PairPlots:",
              "- If clear separation in target classes visible: Consider classification models",
              "- If linear relationships visible: Consider linear models",
              "- If complex non-linear patterns: Consider tree-based or neural network models" >>
      ELSE << "\nModel Suggestions based on Heatmap:",
              "- High correlation with target: Good for linear models",
              "- High multicollinearity: Consider regularization or feature selection",
              "- Low feature correlations: May need complex models to capture patterns" >>

\* C10: a suggest_model call that returns normally has drawn its chart, then
\* called plt.show, and only then printed; what it printed is the heading and
\* the three advisory lines of its strategy, whatever the table and the target.
C10_ChartShowThenAdvice ==
    (Executed /\ raised = None) =>
        /\ \E i, j \in 1..Len(events) :
              /\ i < j
              /\ events[i].op \in {"sns.pairplot", "sns.heatmap"}
              /\ events[j].op = "plt.show"
              /\ \A k \in 1..Len(events) : (events[k].op = "print") <=> (k > j)
        /\ PrintedText = FixedText(TheCall.strategy.cls)

\* C10 witness: the heatmap strategy has returned normally with a target that
\* names a column, and its last effect is a printed line.
C10_Witness ==
    /\ Ran("HeatmapStrategy")
    /\ raised = None
    /\ TheCall.target = Some("age")
    /\ HasColumn(TheCall.df, "age")
    /\ events[Len(events)].op = "print"
====
